---- MODULE Spec2Model ----
(***************************************************************************)
(* Echo Journal (src/Assignment3/EchoJournal/EchoJournal.py): the audio    *)
(* callback, the transcription worker and the Pygame render loop, with the *)
(* two queues between them, the application state machine and the          *)
(* two-column text layout.                                                 *)
(*                                                                         *)
(* Text is a sequence of character codes, so that strip(), split(),        *)
(* lower() and len() are computed as Python computes them.                 *)
(***************************************************************************)
EXTENDS Integers, Sequences, FiniteSets, TLC

(* ------------------------------------------------------------------ *)
(* Bounds of the model                                                  *)
(* ------------------------------------------------------------------ *)

\* Total number of audio blocks the microphone delivers in one run.
MaxChunks == 4

\* Metrics of the monospace font (the font is an external collaborator):
\* the height of a rendered line and the advance of one character, in
\* pixels.  They are large so that a few words fill the 1200x800 window.
FontH == 300

CharW == 100

\* Letters of the long fragment of a session.
LongFragmentLen == 250

\* The character advance of the narrow font of a session, in pixels.
NarrowCharW == 75

(* ------------------------------------------------------------------ *)
(* Program constants                                                    *)
(* ------------------------------------------------------------------ *)

TARGET_CHARS_FOR_RELEASE == 500

WINDOW_WIDTH == 1200

WINDOW_HEIGHT == 800

margin == 40

person_area_width == 250

\* queue.Queue() is built without a maxsize: Python's default maxsize is 0,
\* which means "no limit" (put never blocks).
audio_queue_maxsize == 0

text_queue_maxsize == 0

DEFAULT_TEXT_COLOR == <<0, 0, 0>>

EMOTION_COLORS ==
    [ fear         |-> <<100, 149, 237>>,
      anger        |-> <<220, 20, 60>>,
      sadness      |-> <<119, 136, 153>>,
      disgust      |-> <<107, 142, 35>>,
      joy          |-> <<255, 165, 0>>,
      surprise     |-> <<255, 215, 0>>,
      trust        |-> <<255, 182, 193>>,
      anticipation |-> <<144, 238, 144>>,
      positive     |-> <<60, 179, 113>>,
      negative     |-> <<169, 169, 169>> ]

\* Button rectangles <<left, top, width, height>> (pygame.Rect).
stop_button_rect == <<WINDOW_WIDTH - 270, WINDOW_HEIGHT - 60, 250, 40>>

save_button_rect == <<WINDOW_WIDTH - 270, WINDOW_HEIGHT - 60, 250, 40>>

resume_button_rect == <<WINDOW_WIDTH - 460, WINDOW_HEIGHT - 60, 170, 40>>

\* pygame.Rect.collidepoint: the right and bottom edges are outside.
collidepoint(rect, pos) ==
    /\ rect[1] <= pos[1] /\ pos[1] < rect[1] + rect[3]
    /\ rect[2] <= pos[2] /\ pos[2] < rect[2] + rect[4]

(* ------------------------------------------------------------------ *)
(* Strings                                                              *)
(* ------------------------------------------------------------------ *)

SP == 32

isspace(c) == c = SP

\* str.lower() on one character code.
lower_char(c) == IF c >= 65 /\ c <= 90 THEN c + 32 ELSE c

\* str.lower()
lower(s) == [i \in 1..Len(s) |-> lower_char(s[i])]

RECURSIVE lstrip(_)
lstrip(s) == IF s # <<>> /\ isspace(Head(s)) THEN lstrip(Tail(s)) ELSE s

RECURSIVE rstrip(_)
rstrip(s) ==
    IF s # <<>> /\ isspace(s[Len(s)]) THEN rstrip(SubSeq(s, 1, Len(s) - 1)) ELSE s

\* str.strip()
strip(s) == rstrip(lstrip(s))

\* str.split(): the maximal runs of non-whitespace characters, in order.
\* split_from(s) takes the first word of t, which is s without its leading
\* whitespace; the word ends before the first whitespace of t.
RECURSIVE split_from(_)
split_from(s) ==
    CHOOSE words \in
        { LET ends == {i \in 1..Len(t) : isspace(t[i])}
              n    == IF ends = {} THEN Len(t) + 1
                      ELSE CHOOSE i \in ends : \A j \in ends : i <= j
          IN  IF t = <<>>
              THEN <<>>
              ELSE <<SubSeq(t, 1, n - 1)>> \o split_from(SubSeq(t, n, Len(t)))
          : t \in {lstrip(s)} } : TRUE

split(s) == split_from(s)

(* ------------------------------------------------------------------ *)
(* Collaborators: the recogniser and the lexicon                        *)
(* ------------------------------------------------------------------ *)

\* What the microphone can deliver in one block.
AudioKinds == {"hi_yo", "Joy", "silence"}

\* "".join(segment.text for segment in segments) for each kind of block;
\* Whisper starts a segment's text with a space, and silence has no segment.
SegmentsText(audio) ==
    CASE audio = "hi_yo"   -> <<32, 104, 105, 32, 121, 111>>     \* " hi yo"
      [] audio = "Joy"     -> <<32, 74, 111, 121, 32>>           \* " Joy "
      [] audio = "silence" -> <<32>>                             \* " "

\* The words "joy" and "happy".
joy_word == <<106, 111, 121>>

happy_word == <<104, 97, 112, 112, 121>>

\* The NRC lexicon the program loads: lower-case word -> ordered affect tags.
NRC_lexicon == (joy_word :> <<"joy", "positive">>)

\* lexicon[word], for the words the lexicon knows.
lexicon_get(lex, word) == IF word \in DOMAIN lex THEN lex[word] ELSE <<>>

\* NRCLex(new_text).affect_dict.get(key, []): the dictionary holds the words
\* of the text that the lexicon knows, under the spelling they have in the
\* text.
affect_dict_get(lex, new_text, key) ==
    IF \E words \in {split(new_text)} : \E i \in DOMAIN words : words[i] = key
    THEN lexicon_get(lex, key)
    ELSE <<>>

\* The colour of one word of new_text.
word_color(lex, new_text, word) ==
    LET affect_list == affect_dict_get(lex, new_text, lower(word))
    IN  IF affect_list # <<>> /\ affect_list[1] \in DOMAIN EMOTION_COLORS
        THEN EMOTION_COLORS[affect_list[1]]
        ELSE DEFAULT_TEXT_COLOR

\* new_chunk: one (word, color) token per word of new_text.
new_chunk_of(lex, new_text) ==
    LET words == split(new_text)
    IN  [i \in 1..Len(words) |->
            [word |-> words[i], color |-> word_color(lex, new_text, words[i])]]

\* Mutant of lightness_level_of: the min(1.0, ...) is missing.
lightness_unclamped(chars) == [num |-> chars, den |-> TARGET_CHARS_FOR_RELEASE]

\* min(1.0, total_chars / TARGET_CHARS_FOR_RELEASE), as the fraction num/den:
\* min returns 1.0 unless the quotient is below it.
lightness_level_of(chars) ==
    IF chars < TARGET_CHARS_FOR_RELEASE
    THEN [num |-> chars, den |-> TARGET_CHARS_FOR_RELEASE]
    ELSE [num |-> 1, den |-> 1]

(* ------------------------------------------------------------------ *)
(* draw_text_in_columns                                                 *)
(* ------------------------------------------------------------------ *)

surface_width == WINDOW_WIDTH

surface_height == WINDOW_HEIGHT

col_width == (surface_width - person_area_width - 2 * margin) \div 2

left_col_x == margin

right_col_x == surface_width - margin - col_width

\* font.size(' ')[0]
space_width(font) == font.char_width

\* font.render(word).get_size(): a monospace font.
word_width(font, word) == Len(word) * font.char_width

word_height(font) == font.height

\* font.get_height()
get_height(font) == font.height

\* The layout cursor at the start of draw_text_in_columns.
LayoutInit ==
    [ col_y          |-> margin,
      current_col_x  |-> left_col_x,
      current_line_x |-> left_col_x,
      screen_full    |-> FALSE,
      placed         |-> <<>> ]

\* Mutant of place_word: a line break inside a column leaves the cursor where
\* it was.
place_word_no_reset(st, tok, font) ==
    LET w   == word_width(font, tok.word)
        put(s) == [s EXCEPT
                     !.placed = Append(@, [word |-> tok.word, color |-> tok.color,
                                           x |-> s.current_line_x, y |-> s.col_y]),
                     !.current_line_x = @ + w + space_width(font)]
    IN  IF st.current_line_x + w > st.current_col_x + col_width
        THEN LET y1 == st.col_y + word_height(font)
             IN  IF y1 + word_height(font) > surface_height - margin
                 THEN IF st.current_col_x = left_col_x
                      THEN put([st EXCEPT !.current_col_x = right_col_x,
                                          !.col_y = margin,
                                          !.current_line_x = right_col_x])
                      ELSE [st EXCEPT !.col_y = y1,
                                      !.current_line_x = st.current_col_x,
                                      !.screen_full = TRUE]
                 ELSE put([st EXCEPT !.col_y = y1])
        ELSE put(st)

\* One pass of the inner loop body for one word.
place_word(st, tok, font) ==
    LET w   == word_width(font, tok.word)
        put(s) == [s EXCEPT
                     !.placed = Append(@, [word |-> tok.word, color |-> tok.color,
                                           x |-> s.current_line_x, y |-> s.col_y]),
                     !.current_line_x = @ + w + space_width(font)]
    IN  IF st.current_line_x + w > st.current_col_x + col_width
        THEN LET y1 == st.col_y + word_height(font)
             IN  IF y1 + word_height(font) > surface_height - margin
                 THEN IF st.current_col_x = left_col_x
                      THEN put([st EXCEPT !.current_col_x = right_col_x,
                                          !.col_y = margin,
                                          !.current_line_x = right_col_x])
                      ELSE [st EXCEPT !.col_y = y1,
                                      !.current_line_x = st.current_col_x,
                                      !.screen_full = TRUE]
                 ELSE put([st EXCEPT !.col_y = y1,
                                     !.current_line_x = st.current_col_x])
        ELSE put(st)

\* The inner for loop: the words of one chunk, until the break.
RECURSIVE place_words(_, _, _)
place_words(st, chunk, font) ==
    IF chunk = <<>> \/ st.screen_full
    THEN st
    ELSE place_words(place_word(st, Head(chunk), font), Tail(chunk), font)

\* Mutant of end_chunk: the line break after a chunk never looks at the
\* column bottom.
end_chunk_no_column_break(st, font) ==
    IF st.screen_full
    THEN st
    ELSE [st EXCEPT !.col_y = st.col_y + get_height(font),
                    !.current_line_x = st.current_col_x]

\* The end of the outer loop body: the forced line break after a chunk.
end_chunk(st, font) ==
    IF st.screen_full
    THEN st
    ELSE LET y1 == st.col_y + get_height(font)
         IN  IF y1 + get_height(font) > surface_height - margin
             THEN IF st.current_col_x = left_col_x
                  THEN [st EXCEPT !.current_col_x = right_col_x,
                                  !.col_y = margin,
                                  !.current_line_x = st.current_col_x]
                  ELSE [st EXCEPT !.col_y = y1,
                                  !.current_line_x = st.current_col_x,
                                  !.screen_full = TRUE]
             ELSE [st EXCEPT !.col_y = y1,
                             !.current_line_x = st.current_col_x]

\* The outer for loop over the chunks, until the break; s is the layout state
\* at the top of the loop body, evaluated once per chunk.
RECURSIVE place_chunks(_, _, _)
place_chunks(st, chunks, font) ==
    CHOOSE result \in
        { IF chunks = <<>> \/ s.screen_full
          THEN s
          ELSE place_chunks(end_chunk(place_words(s, Head(chunks).tokens, font), font),
                            Tail(chunks), font)
          : s \in {st} } : TRUE

\* draw_text_in_columns(screen, word_color_chunks, pixel_font): the placements
\* it blits and the screen_full flag it returns.
draw_text_in_columns(chunks, font) == place_chunks(LayoutInit, chunks, font)

\* pygame.font.SysFont(font_name, 30), with the metrics of the model.
SysFont == [height |-> FontH, char_width |-> CharW]

(* ------------------------------------------------------------------ *)
(* State                                                                *)
(* ------------------------------------------------------------------ *)

VARIABLES
    app_state,          \* main: "ONBOARDING", "LOADING", "RUNNING", "FINISHED"
    running,            \* main: the loop flag
    stream_active,      \* main: set once stream.start() has returned
    stream,             \* the sd.InputStream: "undefined" (name not bound),
                        \* "created", "started", "stopped", "closed"
    word_color_chunks,  \* main: the transcript, one entry per fragment
    total_chars,        \* main
    screen_is_full,     \* main: the last result of draw_text_in_columns
    lightness_level,    \* main: the last lightness level drawn, [num, den]
    main_pc,            \* main: where the render loop stands
    event,              \* main: the loop variable of "for event in pygame.event.get()"
    saved_now,          \* main: handling the current event wrote a screenshot
    audio_queue,        \* queue.Queue of audio blocks and the sentinel
    text_queue,         \* queue.Queue of transcriptions
    model_loaded,       \* threading.Event
    lexicon,            \* the lexicon NRCLex reads (never written)
    pixel_font,         \* main: the font of the transcript (never written)
    worker_pc,          \* worker: "load", "get", "transcribe", "exited"
    worker_exit,        \* worker: "", "load_error", "sentinel", "transcribe_error"
    audio_chunk,        \* worker: the block it holds
    ready_sets,         \* history: calls of model_loaded.set() so far
    n_captured,         \* history: blocks the callback has enqueued so far
    sentinels_put,      \* history: sentinels enqueued so far
    start_attempts,     \* history: times the Loading branch tried to open the stream
    start_error         \* history: the "Fatal error starting audio stream" handler ran

vars == << app_state, running, stream_active, stream, word_color_chunks,
           total_chars, screen_is_full, lightness_level, main_pc, event, saved_now,
           audio_queue, text_queue, model_loaded, lexicon, pixel_font, worker_pc,
           worker_exit, audio_chunk, ready_sets, n_captured, sentinels_put,
           start_attempts, start_error >>

main_vars == << app_state, running, stream_active, word_color_chunks,
                total_chars, screen_is_full, lightness_level, main_pc, event,
                saved_now, start_attempts, start_error >>

worker_vars == << worker_pc, worker_exit, audio_chunk, model_loaded, ready_sets >>

AppStates == {"ONBOARDING", "LOADING", "RUNNING", "FINISHED"}

\* The sentinel audio_queue.put(None); seq is the emission order of a block
\* (0 for the sentinel), carried along to tell the blocks apart.
None == [seq |-> 0, audio |-> "None"]

\* queue.Queue.put blocks only when maxsize > 0 and the queue holds maxsize items.
can_put(q, maxsize) == maxsize <= 0 \/ Len(q) < maxsize

\* The events pygame.event.get() can return.
ClickPositions == { <<1000, 760>>, <<800, 760>>, <<100, 100>> }

Events ==
    { [type |-> "QUIT", pos |-> <<0, 0>>], [type |-> "KEYDOWN", pos |-> <<0, 0>>] }
    \cup { [type |-> "MOUSEBUTTONDOWN", pos |-> p] : p \in ClickPositions }

\* The value of the loop variable outside the for loop, where it is not read.
NoEvent == [type |-> "NONE", pos |-> <<0, 0>>]

\* Mutant of stream_stop: the stream keeps capturing.
stream_stop_noop(s) == s

\* stream.stop() and stream.start() of sounddevice.
stream_stop(s) == IF s = "started" THEN "stopped" ELSE s

stream_start(s) == IF s \in {"created", "stopped"} THEN "started" ELSE s

Init ==
    /\ app_state = "ONBOARDING"
    /\ running = TRUE
    /\ stream_active = FALSE
    /\ stream = "undefined"
    /\ word_color_chunks = <<>>
    /\ total_chars = 0
    /\ screen_is_full = FALSE
    /\ lightness_level = lightness_level_of(0)
    /\ main_pc = "events"
    /\ event = NoEvent
    /\ saved_now = FALSE
    /\ audio_queue = <<>>
    /\ text_queue = <<>>
    /\ model_loaded = FALSE
    /\ lexicon = NRC_lexicon
    /\ pixel_font = SysFont
    /\ worker_pc = "load"
    /\ worker_exit = ""
    /\ audio_chunk = None
    /\ ready_sets = 0
    /\ n_captured = 0
    /\ sentinels_put = 0
    /\ start_attempts = 0
    /\ start_error = FALSE

(* ------------------------------------------------------------------ *)
(* transcription_worker                                                 *)
(* ------------------------------------------------------------------ *)

\* WhisperModel(...) returns: model_loaded.set(), enter the loop.
WorkerLoadOk ==
    /\ worker_pc = "load"
    /\ model_loaded' = TRUE
    /\ ready_sets' = ready_sets + 1
    /\ worker_pc' = "get"
    /\ UNCHANGED << worker_exit, audio_chunk, audio_queue, text_queue, stream, lexicon,
                    pixel_font, n_captured, sentinels_put, main_vars >>

\* Mutant of WorkerLoadFail: the except branch returns without model_loaded.set().
WorkerLoadFailNoSet ==
    /\ worker_pc = "load"
    /\ worker_pc' = "exited"
    /\ worker_exit' = "load_error"
    /\ UNCHANGED << model_loaded, ready_sets, audio_chunk, audio_queue, text_queue,
                    stream, lexicon, pixel_font, n_captured, sentinels_put,
                    main_vars >>

\* WhisperModel(...) raises: model_loaded.set(), return.
WorkerLoadFail ==
    /\ worker_pc = "load"
    /\ model_loaded' = TRUE
    /\ ready_sets' = ready_sets + 1
    /\ worker_pc' = "exited"
    /\ worker_exit' = "load_error"
    /\ UNCHANGED << audio_chunk, audio_queue, text_queue, stream, lexicon, pixel_font,
                    n_captured, sentinels_put, main_vars >>

\* Mutant of WorkerGet: the queue hands out its newest item (a LifoQueue).
WorkerGetLifo ==
    /\ worker_pc = "get"
    /\ audio_queue # <<>>
    /\ audio_queue' = SubSeq(audio_queue, 1, Len(audio_queue) - 1)
    /\ IF audio_queue[Len(audio_queue)] = None
       THEN /\ worker_pc' = "exited"
            /\ worker_exit' = "sentinel"
            /\ UNCHANGED audio_chunk
       ELSE /\ worker_pc' = "transcribe"
            /\ audio_chunk' = audio_queue[Len(audio_queue)]
            /\ UNCHANGED worker_exit
    /\ UNCHANGED << model_loaded, ready_sets, text_queue, stream, lexicon, pixel_font,
                    n_captured, sentinels_put, main_vars >>

\* audio_queue.get() (blocking); break on the sentinel.
WorkerGet ==
    /\ worker_pc = "get"
    /\ audio_queue # <<>>
    /\ audio_queue' = Tail(audio_queue)
    /\ IF Head(audio_queue) = None
       THEN /\ worker_pc' = "exited"
            /\ worker_exit' = "sentinel"
            /\ UNCHANGED audio_chunk
       ELSE /\ worker_pc' = "transcribe"
            /\ audio_chunk' = Head(audio_queue)
            /\ UNCHANGED worker_exit
    /\ UNCHANGED << model_loaded, ready_sets, text_queue, stream, lexicon, pixel_font,
                    n_captured, sentinels_put, main_vars >>

\* model.transcribe returns: join and strip the text, put it if not empty.
WorkerTranscribeOk ==
    /\ worker_pc = "transcribe"
    /\ LET transcription == strip(SegmentsText(audio_chunk.audio))
       IN  IF transcription # <<>>
           THEN /\ can_put(text_queue, text_queue_maxsize)
                /\ text_queue' = Append(text_queue,
                                        [seq |-> audio_chunk.seq, text |-> transcription])
           ELSE UNCHANGED text_queue
    /\ worker_pc' = "get"
    /\ audio_chunk' = None
    /\ UNCHANGED << worker_exit, model_loaded, ready_sets, audio_queue, stream,
                    lexicon, pixel_font, n_captured, sentinels_put, main_vars >>

\* Mutant of WorkerTranscribeFail: the error is logged and the loop goes on.
WorkerTranscribeFailContinue ==
    /\ worker_pc = "transcribe"
    /\ worker_pc' = "get"
    /\ worker_exit' = "transcribe_error"
    /\ audio_chunk' = None
    /\ UNCHANGED << model_loaded, ready_sets, audio_queue, text_queue, stream, lexicon,
                    pixel_font, n_captured, sentinels_put, main_vars >>

\* An exception inside the loop body: print and break.
WorkerTranscribeFail ==
    /\ worker_pc = "transcribe"
    /\ worker_pc' = "exited"
    /\ worker_exit' = "transcribe_error"
    /\ audio_chunk' = None
    /\ UNCHANGED << model_loaded, ready_sets, audio_queue, text_queue, stream, lexicon,
                    pixel_font, n_captured, sentinels_put, main_vars >>

(* ------------------------------------------------------------------ *)
(* audio_callback                                                       *)
(* ------------------------------------------------------------------ *)

\* The stream calls audio_callback for each block while it is started.
audio_callback(audio) ==
    /\ stream = "started"
    /\ n_captured < MaxChunks
    /\ can_put(audio_queue, audio_queue_maxsize)
    /\ audio_queue' = Append(audio_queue, [seq |-> n_captured + 1, audio |-> audio])
    /\ n_captured' = n_captured + 1
    /\ UNCHANGED << text_queue, stream, lexicon, pixel_font, sentinels_put,
                    worker_vars, main_vars >>

(* ------------------------------------------------------------------ *)
(* main: the render loop                                                *)
(* ------------------------------------------------------------------ *)

\* Mutant of after_keydown: the test of event.type is missing.
after_any_event(e) ==
    IF app_state = "ONBOARDING" THEN "LOADING" ELSE app_state

\* app_state after "if app_state == ONBOARDING and event.type == KEYDOWN".
after_keydown(e) ==
    IF app_state = "ONBOARDING" /\ e.type = "KEYDOWN" THEN "LOADING" ELSE app_state

\* The click takes the "Pause Recording" branch.
is_pause_click(e) ==
    /\ e.type = "MOUSEBUTTONDOWN"
    /\ after_keydown(e) = "RUNNING" /\ collidepoint(stop_button_rect, e.pos)

\* Mutant of is_save_click: "if" in place of "elif app_state == FINISHED".
is_save_click_any_state(e) ==
    /\ e.type = "MOUSEBUTTONDOWN"
    /\ collidepoint(save_button_rect, e.pos)

\* The click takes the "Save Screenshot" branch: pygame.image.save.
is_save_click(e) ==
    /\ e.type = "MOUSEBUTTONDOWN"
    /\ ~is_pause_click(e)
    /\ after_keydown(e) = "FINISHED" /\ collidepoint(save_button_rect, e.pos)

\* The click takes the "Resume" branch.
is_resume_click(e) ==
    /\ e.type = "MOUSEBUTTONDOWN"
    /\ ~is_pause_click(e)
    /\ after_keydown(e) = "FINISHED"
    /\ ~collidepoint(save_button_rect, e.pos)
    /\ collidepoint(resume_button_rect, e.pos)

\* The body of "for event in pygame.event.get()" for one event.  A pause
\* click assigns app_state and then calls stream.stop(): the stream still
\* captures in between, so the stop is a step of its own (PauseStop).  A
\* resume click finds the stream stopped, so no block can arrive between its
\* two statements.
HandleEvent(e) ==
    /\ main_pc = "events"
    /\ event' = e
    /\ running' = IF e.type = "QUIT" THEN FALSE ELSE running
    /\ saved_now' = is_save_click(e)
    /\ IF is_pause_click(e)
       THEN /\ app_state' = "FINISHED"
            /\ main_pc' = "pause_stop"
            /\ UNCHANGED stream
       ELSE IF is_resume_click(e)
            THEN /\ app_state' = "RUNNING"
                 /\ stream' = IF stream_active THEN stream_start(stream) ELSE stream
                 /\ UNCHANGED main_pc
            ELSE /\ app_state' = after_keydown(e)
                 /\ UNCHANGED << stream, main_pc >>
    /\ UNCHANGED << stream_active, word_color_chunks, total_chars, screen_is_full,
                    lightness_level, start_attempts, start_error, audio_queue,
                    text_queue, lexicon, pixel_font, n_captured, sentinels_put,
                    worker_vars >>

\* "if stream_active: stream.stop()" of the pause click; on to the next event.
PauseStop ==
    /\ main_pc = "pause_stop"
    /\ stream' = IF stream_active THEN stream_stop(stream) ELSE stream
    /\ main_pc' = "events"
    /\ UNCHANGED << app_state, running, stream_active, word_color_chunks, total_chars,
                    screen_is_full, lightness_level, event, saved_now, start_attempts,
                    start_error, audio_queue, text_queue, lexicon, pixel_font,
                    n_captured, sentinels_put, worker_vars >>

\* The event list is exhausted: go on to the drawing state machine.
EventsDone ==
    /\ main_pc = "events"
    /\ main_pc' = "state"
    /\ event' = NoEvent
    /\ saved_now' = FALSE
    /\ UNCHANGED << app_state, running, stream_active, word_color_chunks, total_chars,
                    screen_is_full, lightness_level, start_attempts, start_error,
                    stream, audio_queue, text_queue, lexicon, pixel_font, n_captured,
                    sentinels_put, worker_vars >>

\* Mutant of may_start_stream: the model_loaded.is_set() test is missing.
may_start_stream_unready == app_state = "LOADING"

\* The Loading branch may open the stream: Loading and model_loaded.is_set().
may_start_stream == app_state = "LOADING" /\ model_loaded

\* ONBOARDING, or LOADING with the model not loaded: only drawing.
DrawNoStart ==
    /\ main_pc = "state"
    /\ ~may_start_stream
    /\ main_pc' = "poll"
    /\ UNCHANGED << event, saved_now, app_state, running, stream_active,
                    word_color_chunks, total_chars, screen_is_full, lightness_level,
                    start_attempts, start_error, stream, audio_queue, text_queue,
                    lexicon, pixel_font, n_captured, sentinels_put, worker_vars >>

\* sd.InputStream(...) and stream.start() return; stream_active = True.  The
\* stream captures from here on, before app_state is assigned (EnterRunning).
StartStreamOk ==
    /\ main_pc = "state"
    /\ may_start_stream
    /\ stream' = "started"
    /\ stream_active' = TRUE
    /\ start_attempts' = start_attempts + 1
    /\ main_pc' = "enter_running"
    /\ UNCHANGED << event, saved_now, app_state, running, word_color_chunks,
                    total_chars, screen_is_full, lightness_level, start_error,
                    audio_queue, text_queue, lexicon, pixel_font, n_captured,
                    sentinels_put, worker_vars >>

\* app_state = "RUNNING" after the stream has started.
EnterRunning ==
    /\ main_pc = "enter_running"
    /\ app_state' = "RUNNING"
    /\ main_pc' = "poll"
    /\ UNCHANGED << event, saved_now, running, stream_active, word_color_chunks,
                    total_chars, screen_is_full, lightness_level, start_attempts,
                    start_error, stream, audio_queue, text_queue, lexicon, pixel_font,
                    n_captured, sentinels_put, worker_vars >>

\* Mutant of on_start_error: the handler only prints.
on_start_error_keep_running ==
    /\ start_error' = TRUE
    /\ UNCHANGED << running, app_state >>

\* The except branch: running = False.
on_start_error ==
    /\ running' = FALSE
    /\ start_error' = TRUE
    /\ UNCHANGED app_state

\* sd.InputStream(...) raises (stream stays unbound) or stream.start() raises
\* (stream is bound to a stream that never started).
StartStreamFail(bound) ==
    /\ main_pc = "state"
    /\ may_start_stream
    /\ stream' = IF bound THEN "created" ELSE stream
    /\ on_start_error
    /\ start_attempts' = start_attempts + 1
    /\ main_pc' = "poll"
    /\ UNCHANGED << event, saved_now, stream_active, word_color_chunks, total_chars,
                    screen_is_full, lightness_level, audio_queue, text_queue, lexicon,
                    pixel_font, n_captured, sentinels_put, worker_vars >>

\* The transcript entry built from one transcription; seq is the emission
\* order of the block it came from.
text_chunk(lex, fragment) ==
    [seq |-> fragment.seq, tokens |-> new_chunk_of(lex, fragment.text)]

\* Mutant of get_returns: the call waits for an item whatever block says.
get_always_waits(q, block) == q # <<>>

\* queue.Queue.get(block) comes back at once with an item, or with
\* queue.Empty when block is false; it waits while block is true and the
\* queue is empty.  get_nowait() is get(False).
get_returns(q, block) == q # <<>> \/ ~block

\* text_queue.get_nowait(): the item taken.
get_nowait(q) == Head(q)

\* Mutant of may_poll: the queue is polled in the FINISHED state too.
may_poll_finished == app_state \in {"RUNNING", "FINISHED"}

\* "if app_state == RUNNING" around text_queue.get_nowait().
may_poll == app_state = "RUNNING"

\* Mutant of append_chunk: only the newest two entries are kept.
append_capped(chunks, chunk) ==
    IF Len(chunks) >= 2 THEN Append(Tail(chunks), chunk) ELSE Append(chunks, chunk)

\* word_color_chunks.append(new_chunk)
append_chunk(chunks, chunk) == Append(chunks, chunk)

\* "if app_state == RUNNING: try: text_queue.get_nowait() ... except Empty".
PollText ==
    /\ main_pc = "poll"
    /\ may_poll => get_returns(text_queue, FALSE)
    /\ IF may_poll /\ text_queue # <<>>
       THEN LET fragment == get_nowait(text_queue)
            IN  /\ text_queue' = Tail(text_queue)
                /\ total_chars' = total_chars + Len(fragment.text)
                /\ word_color_chunks' =
                      IF new_chunk_of(lexicon, fragment.text) # <<>>
                      THEN append_chunk(word_color_chunks, text_chunk(lexicon, fragment))
                      ELSE word_color_chunks
       ELSE UNCHANGED << text_queue, total_chars, word_color_chunks >>
    /\ main_pc' = "layout"
    /\ UNCHANGED << event, saved_now, app_state, running, stream_active,
                    screen_is_full, lightness_level, start_attempts, start_error,
                    stream, audio_queue, lexicon, pixel_font, n_captured,
                    sentinels_put, worker_vars >>

\* Mutant of on_screen_full: app_state is left as it is.
on_screen_full_keep_running ==
    /\ app_state' = app_state
    /\ main_pc' = "full_stop"

\* "if screen_is_full and app_state == RUNNING": app_state = "FINISHED"; the
\* stream is stopped by the next statement (FullStop).
on_screen_full ==
    /\ app_state' = "FINISHED"
    /\ main_pc' = "full_stop"

\* The drawing of the RUNNING and FINISHED states: the lightness level, the
\* text layout and the overflow test.
Layout ==
    /\ main_pc = "layout"
    /\ IF app_state \in {"RUNNING", "FINISHED"}
       THEN LET full == draw_text_in_columns(word_color_chunks, pixel_font).screen_full
            IN  /\ lightness_level' = lightness_level_of(total_chars)
                /\ screen_is_full' = full
                /\ IF full /\ app_state = "RUNNING"
                   THEN on_screen_full
                   ELSE /\ main_pc' = "loop"
                        /\ UNCHANGED app_state
       ELSE /\ main_pc' = "loop"
            /\ UNCHANGED << lightness_level, screen_is_full, app_state >>
    /\ UNCHANGED << event, saved_now, running, stream_active, word_color_chunks,
                    total_chars, start_attempts, start_error, stream, audio_queue,
                    text_queue, lexicon, pixel_font, n_captured, sentinels_put,
                    worker_vars >>

\* Mutant of FullStop: the stream is left running.
FullStopNoStop ==
    /\ main_pc = "full_stop"
    /\ main_pc' = "loop"
    /\ UNCHANGED << event, saved_now, app_state, running, stream_active,
                    word_color_chunks, total_chars, screen_is_full, lightness_level,
                    start_attempts, start_error, stream, audio_queue, text_queue,
                    lexicon, pixel_font, n_captured, sentinels_put, worker_vars >>

\* "if stream_active: stream.stop()" of the overflow branch, then the
\* buttons, flip and wait.
FullStop ==
    /\ main_pc = "full_stop"
    /\ stream' = IF stream_active THEN stream_stop(stream) ELSE stream
    /\ main_pc' = "loop"
    /\ UNCHANGED << event, saved_now, app_state, running, stream_active,
                    word_color_chunks, total_chars, screen_is_full, lightness_level,
                    start_attempts, start_error, audio_queue, text_queue, lexicon,
                    pixel_font, n_captured, sentinels_put, worker_vars >>

\* "while running": another iteration, or leave the loop.
LoopTest ==
    /\ main_pc = "loop"
    /\ main_pc' = IF running THEN "events" ELSE "cleanup"
    /\ UNCHANGED << event, saved_now, app_state, running, stream_active,
                    word_color_chunks, total_chars, screen_is_full, lightness_level,
                    start_attempts, start_error, stream, audio_queue, text_queue,
                    lexicon, pixel_font, n_captured, sentinels_put, worker_vars >>

\* Mutant of Cleanup: the stream is neither stopped nor closed.
CleanupNoStop ==
    /\ main_pc = "cleanup"
    /\ main_pc' = "sentinel"
    /\ UNCHANGED << event, saved_now, app_state, running, stream_active,
                    word_color_chunks, total_chars, screen_is_full, lightness_level,
                    start_attempts, start_error, stream, audio_queue, text_queue,
                    lexicon, pixel_font, n_captured, sentinels_put, worker_vars >>

\* "if 'stream' in locals() and stream_active: stream.stop(); stream.close()".
Cleanup ==
    /\ main_pc = "cleanup"
    /\ stream' = IF stream # "undefined" /\ stream_active THEN "closed" ELSE stream
    /\ main_pc' = "sentinel"
    /\ UNCHANGED << event, saved_now, app_state, running, stream_active,
                    word_color_chunks, total_chars, screen_is_full, lightness_level,
                    start_attempts, start_error, audio_queue, text_queue, lexicon,
                    pixel_font, n_captured, sentinels_put, worker_vars >>

\* audio_queue.put(None)
PutSentinel ==
    /\ main_pc = "sentinel"
    /\ can_put(audio_queue, audio_queue_maxsize)
    /\ audio_queue' = Append(audio_queue, None)
    /\ sentinels_put' = sentinels_put + 1
    /\ main_pc' = "join"
    /\ UNCHANGED << event, saved_now, app_state, running, stream_active,
                    word_color_chunks, total_chars, screen_is_full, lightness_level,
                    start_attempts, start_error, stream, text_queue, lexicon,
                    pixel_font, n_captured, worker_vars >>

\* Mutant of join_returns: the join does not wait.
join_returns_at_once == TRUE

\* worker.join() returns once the worker thread has ended.
join_returns == worker_pc = "exited"

\* worker.join(); pygame.quit()
Join ==
    /\ main_pc = "join"
    /\ join_returns
    /\ main_pc' = "done"
    /\ UNCHANGED << event, saved_now, app_state, running, stream_active,
                    word_color_chunks, total_chars, screen_is_full, lightness_level,
                    start_attempts, start_error, stream, audio_queue, text_queue,
                    lexicon, pixel_font, n_captured, sentinels_put, worker_vars >>

(* ------------------------------------------------------------------ *)
(* The system                                                           *)
(* ------------------------------------------------------------------ *)

\* One pass of the render loop, from the event list to the loop test.
LoopStep ==
    \/ \E e \in Events : HandleEvent(e)
    \/ PauseStop
    \/ EventsDone
    \/ DrawNoStart
    \/ StartStreamOk
    \/ EnterRunning
    \/ \E bound \in BOOLEAN : StartStreamFail(bound)
    \/ PollText
    \/ Layout
    \/ FullStop
    \/ LoopTest

MainStep ==
    \/ LoopStep
    \/ Cleanup
    \/ PutSentinel
    \/ Join

WorkerStep ==
    \/ WorkerLoadOk
    \/ WorkerLoadFail
    \/ WorkerGet
    \/ WorkerTranscribeOk
    \/ WorkerTranscribeFail

Next ==
    \/ MainStep
    \/ WorkerStep
    \/ \E audio \in AudioKinds : audio_callback(audio)

Spec == Init /\ [][Next]_vars

(* ------------------------------------------------------------------ *)
(* A session with given fragments and a given lexicon                   *)
(* ------------------------------------------------------------------ *)

\* A word of n letters.
word_of(n) == [i \in 1..n |-> 97]

\* "a b c d"
a_b_c_d == <<97, SP, 98, SP, 99, SP, 100>>

\* Transcriptions text_queue.get_nowait() can return: "I am happy", "Happy",
\* "happy Happy", "Joy joy", one long word, four one-letter words and
\* fourteen one-letter words.
FragmentTexts ==
    [ i_am_happy  |-> <<73, SP, 97, 109, SP>> \o happy_word,
      Happy       |-> <<72, 97, 112, 112, 121>>,
      happy_Happy |-> happy_word \o <<SP, 72, 97, 112, 112, 121>>,
      Joy_joy     |-> <<74, 111, 121, SP>> \o joy_word,
      long        |-> word_of(LongFragmentLen),
      four        |-> a_b_c_d,
      fourteen    |-> a_b_c_d \o <<SP>> \o a_b_c_d \o <<SP>> \o a_b_c_d
                        \o <<SP, 97, SP, 98>> ]

\* The fragments waiting in the text queue when the session is looked at.
SessionTexts ==
    { <<FragmentTexts.long, FragmentTexts.long, FragmentTexts.long>>,
      <<FragmentTexts.i_am_happy, FragmentTexts.Happy>>,
      <<FragmentTexts.happy_Happy, FragmentTexts.Joy_joy>> }

\* Lexicons NRCLex can be given: word -> ordered affect tags, some of them
\* unknown to EMOTION_COLORS.
Lexicons ==
    { NRC_lexicon,
      (happy_word :> <<"joy">>),
      (happy_word :> <<"bliss", "joy">>),
      (happy_word :> <<"trust", "joy">>) @@ (joy_word :> <<"bliss">>) }

\* The fragments of the sessions that exercise the layout.
LayoutTexts ==
    { <<FragmentTexts.four, FragmentTexts.four, FragmentTexts.four>>,
      <<FragmentTexts.fourteen, FragmentTexts.four>> }

\* A font with a narrower character than SysFont: three one-letter words
\* and their spaces fit in a column line, four do not.
NarrowFont == [height |-> FontH, char_width |-> NarrowCharW]

Fonts == {SysFont, NarrowFont}

\* The application is RUNNING with the stream started and the worker waiting
\* for audio; the worker has delivered the fragments of texts, which the
\* render loop has not polled yet; one more block is to come.
SessionInit ==
    /\ \E texts \in SessionTexts \cup LayoutTexts :
          /\ text_queue = [i \in 1..Len(texts) |-> [seq |-> i, text |-> texts[i]]]
          /\ IF texts \in LayoutTexts
             THEN lexicon = NRC_lexicon /\ pixel_font \in Fonts
             ELSE lexicon \in Lexicons /\ pixel_font = SysFont
    /\ app_state = "RUNNING"
    /\ running = TRUE
    /\ stream_active = TRUE
    /\ stream = "started"
    /\ word_color_chunks = <<>>
    /\ total_chars = 0
    /\ screen_is_full = FALSE
    /\ lightness_level = lightness_level_of(0)
    /\ main_pc = "events"
    /\ event = NoEvent
    /\ saved_now = FALSE
    /\ audio_queue = <<>>
    /\ model_loaded = TRUE
    /\ worker_pc = "get"
    /\ worker_exit = ""
    /\ audio_chunk = None
    /\ ready_sets = 1
    /\ n_captured = MaxChunks - 1
    /\ sentinels_put = 0
    /\ start_attempts = 1
    /\ start_error = FALSE

\* The steps of a session that is under way: the render loop once the stream
\* has been opened, the shutdown, the worker loop and the callback.
SessionNext ==
    \/ \E e \in Events : HandleEvent(e)
    \/ PauseStop
    \/ EventsDone
    \/ DrawNoStart
    \/ PollText
    \/ Layout
    \/ FullStop
    \/ LoopTest
    \/ Cleanup
    \/ PutSentinel
    \/ Join
    \/ WorkerGet
    \/ WorkerTranscribeOk
    \/ WorkerTranscribeFail
    \/ \E audio \in AudioKinds : audio_callback(audio)

SessionSpec == SessionInit /\ [][SessionNext]_vars

(* ------------------------------------------------------------------ *)
(* Properties                                                           *)
(* ------------------------------------------------------------------ *)

IsClickOn(rect, e) == e.type = "MOUSEBUTTONDOWN" /\ collidepoint(rect, e.pos)

C2_ResumeOnlyIfNotOverflowed ==
    [][( /\ main_pc = "events" /\ IsClickOn(resume_button_rect, event')
         /\ app_state = "FINISHED"
         /\ draw_text_in_columns(word_color_chunks, pixel_font).screen_full )
       => /\ app_state' = "FINISHED"
          /\ stream' = stream
          /\ word_color_chunks' = word_color_chunks
          /\ total_chars' = total_chars
          /\ Len(text_queue') >= Len(text_queue)
      ]_vars

\* C3: the drawing step of an iteration that finds app_state Running and a
\* layout that overflows sets app_state Finished and goes on to stop the
\* stream before the iteration ends; and every iteration whose layout
\* overflowed ends Finished with the stream not capturing.
C3_OverflowForcesFinished ==
    /\ [][( /\ main_pc = "layout" /\ main_pc' # "layout"
            /\ app_state = "RUNNING"
            /\ draw_text_in_columns(word_color_chunks, pixel_font).screen_full )
          => (app_state' = "FINISHED" /\ main_pc' = "full_stop")]_vars
    /\ [][main_pc = "full_stop" /\ main_pc' # "full_stop"
          => (app_state' = "FINISHED" /\ stream' = "stopped" /\ main_pc' = "loop")]_vars
    /\ [](main_pc = "loop" /\ screen_is_full
            => app_state = "FINISHED" /\ stream # "started")

\* C3 witness: an iteration ended Finished because of overflow, with no quit
\* and the stream stopped.
C3_Witness ==
    /\ main_pc = "loop" /\ screen_is_full /\ running
    /\ app_state = "FINISHED" /\ stream = "stopped"
    /\ event = NoEvent

\* C4: the transcript entries are in the order in which their audio blocks
\* were put on the audio queue.
C4_FifoOrder ==
    \A i, j \in 1..Len(word_color_chunks) :
        i < j => word_color_chunks[i].seq < word_color_chunks[j].seq

\* C4 witness: three fragments delivered, with a block in between that
\* produced none.
C4_Witness ==
    /\ Len(word_color_chunks) = 3
    /\ word_color_chunks[3].seq = 4

\* C5: neither queue ever holds as many items as the microphone delivers
\* blocks in the run (a fixed capacity is below that number for a long
\* enough run).
C5_QueuesBounded ==
    /\ Len(audio_queue) < MaxChunks
    /\ Len(text_queue) < MaxChunks

\* The sentinel is in the audio queue only as its last item.
SentinelLast ==
    \A i \in 1..Len(audio_queue) : audio_queue[i] = None => i = Len(audio_queue)

\* C6: handling a quit event clears the loop flag in every app_state, the
\* flag stays cleared, and the loop test then leaves the loop for the cleanup;
\* exactly one sentinel has been enqueued once the main thread is at the join
\* (none before) and a stream that was started is then closed; the put of the
\* sentinel never has to wait for room in the queue.
C6_QuitTerminates ==
    /\ [][main_pc = "events" /\ main_pc' = "events" /\ event'.type = "QUIT"
            => ~running']_vars
    /\ [][~running => ~running']_vars
    /\ [][main_pc = "loop" /\ main_pc' # "loop" /\ ~running
            => main_pc' = "cleanup"]_vars
    /\ [](sentinels_put = IF main_pc \in {"join", "done"} THEN 1 ELSE 0)
    /\ [](main_pc \in {"join", "done"} /\ stream_active => stream = "closed")
    /\ [](main_pc = "sentinel" => can_put(audio_queue, audio_queue_maxsize))

\* C6 witness: the run ended after a quit, with the sentinel enqueued and the
\* started stream closed.
C6_Witness ==
    /\ main_pc = "done" /\ ~start_error
    /\ sentinels_put = 1 /\ stream = "closed"

\* C7 as stated: when the main thread has passed the join, the worker has
\* dequeued the sentinel.
C7_WorkerObservesSentinel ==
    main_pc = "done" => worker_exit = "sentinel"

\* C7 amended: when the main thread has passed the join, the worker has
\* exited, either by dequeuing the sentinel (the queue is then empty) or
\* earlier, on a model-load failure or a transcription error, in which case
\* the sentinel is still the last item of the audio queue.
C7_JoinAfterWorkerExit ==
    main_pc = "done" =>
        /\ worker_pc = "exited"
        /\ \/ worker_exit = "sentinel" /\ audio_queue = <<>>
           \/ /\ worker_exit \in {"load_error", "transcribe_error"}
              /\ audio_queue # <<>> /\ audio_queue[Len(audio_queue)] = None

\* C7 witness: the join returned after the worker took the sentinel behind a
\* backlog of blocks.
C7_Witness ==
    /\ main_pc = "done" /\ worker_exit = "sentinel"
    /\ n_captured = MaxChunks

\* C8: the sentinel is the last item ever put on the audio queue: it is never
\* followed by a block in the queue, nothing is left once the worker has
\* taken it, and the stream is not capturing once it has been put.
C8_SentinelIsLast ==
    /\ SentinelLast
    /\ worker_exit = "sentinel" => audio_queue = <<>>
    /\ sentinels_put > 0 => stream # "started"

\* C8 witness: the sentinel sits in the queue behind captured blocks, with
\* blocks still to come from the microphone.
C8_Witness ==
    /\ sentinels_put = 1 /\ Len(audio_queue) >= 2
    /\ audio_queue[Len(audio_queue)] = None
    /\ n_captured < MaxChunks

\* C9: Running or Finished implies that the model-ready signal is set and the
\* stream was started; while the signal is not set, app_state is Onboarding
\* or Loading, and no stream has been opened or attempted.
C9_RunningNeedsModelAndStream ==
    /\ app_state \in {"RUNNING", "FINISHED"}
          => model_loaded /\ stream_active /\ stream \in {"started", "stopped", "closed"}
    /\ ~model_loaded
          => /\ app_state \in {"ONBOARDING", "LOADING"}
             /\ stream = "undefined" /\ start_attempts = 0

\* C9 witness: the application has just left Loading for Running.
C9_Witness ==
    /\ app_state = "RUNNING" /\ main_pc = "poll"
    /\ model_loaded /\ stream = "started" /\ n_captured = 0

\* C10: once starting the stream has failed, app_state stays Loading, the
\* loop flag is cleared, there was exactly one attempt, no stream is started,
\* the loop does not begin another iteration, and the cleanup enqueues the
\* sentinel.
C10_StartFailureIsFatal ==
    start_error =>
        /\ app_state = "LOADING"
        /\ ~running
        /\ start_attempts = 1
        /\ ~stream_active /\ stream \in {"undefined", "created"}
        /\ main_pc \notin {"events", "state"}
        /\ main_pc \in {"join", "done"}
              => sentinels_put = 1 /\ (audio_queue = <<None>> \/ worker_exit = "sentinel")

\* C10 witness: the run ended after a failed stream start.
C10_Witness ==
    /\ start_error /\ main_pc = "done"
    /\ stream = "created"

\* C11 as stated: at the end of every iteration the stream is capturing
\* exactly when app_state is Running, and a block is enqueued only while
\* app_state is Running.
C11_CapturingIffRunning ==
    /\ [](main_pc = "loop" => (stream = "started" <=> app_state = "RUNNING"))
    /\ [][n_captured' # n_captured => app_state = "RUNNING"]_vars

\* C11 amended: at the end of every iteration the stream is capturing exactly
\* when app_state is Running; a block is enqueued only while the stream is
\* started, and the stream is started outside Running only inside an
\* iteration: in Loading between stream.start() and the assignment of
\* Running, and in Finished between the assignment of Finished and
\* stream.stop(); never in Onboarding.
C11_CapturingFollowsState ==
    /\ [](main_pc = "loop" => (stream = "started" <=> app_state = "RUNNING"))
    /\ [](stream = "started" /\ app_state # "RUNNING"
            => \/ app_state = "LOADING" /\ main_pc = "enter_running"
               \/ app_state = "FINISHED" /\ main_pc \in {"pause_stop", "full_stop"})
    /\ [][n_captured' # n_captured => stream = "started"]_vars

\* C11 witness: a pause click has set Finished and the stream still captures,
\* with blocks of the microphone still to come.
C11_Witness ==
    /\ main_pc = "pause_stop" /\ app_state = "FINISHED" /\ stream = "started"
    /\ IsClickOn(stop_button_rect, event)
    /\ n_captured \in 1..(MaxChunks - 1)

\* C12: the model-ready signal is unset exactly while the worker is still
\* acquiring the model, is set by the step that ends the acquisition whether
\* it succeeds or fails, has been raised exactly once from then on, and is
\* never cleared.
C12_ModelReadyOnce ==
    /\ [](model_loaded <=> worker_pc # "load")
    /\ [](ready_sets = IF worker_pc = "load" THEN 0 ELSE 1)
    /\ [][model_loaded => model_loaded']_vars
    /\ [][ready_sets' # ready_sets => worker_pc = "load" /\ worker_pc' # "load"]_vars

\* C12 witness: the acquisition failed, the signal was raised once, and the
\* run has gone on to its end.
C12_Witness ==
    /\ worker_exit = "load_error" /\ model_loaded /\ ready_sets = 1
    /\ main_pc = "done"

\* C13: once a transcription has raised, the worker has exited and stays
\* exited; from then on nothing is taken from the audio queue (it only grows
\* at its tail) and nothing is put on the text queue (it only shrinks), in
\* every later step of any thread.
C13_TranscribeErrorIsFinal ==
    /\ [](worker_exit = "transcribe_error" => worker_pc = "exited")
    /\ [][worker_exit = "transcribe_error" =>
            /\ worker_exit' = "transcribe_error" /\ worker_pc' = "exited"
            /\ audio_chunk' = audio_chunk
            /\ Len(audio_queue') >= Len(audio_queue)
            /\ SubSeq(audio_queue', 1, Len(audio_queue)) = audio_queue
            /\ \/ text_queue' = text_queue
               \/ text_queue # <<>> /\ text_queue' = Tail(text_queue)
       ]_vars

\* C13 witness: the worker died on a transcription error after delivering a
\* fragment; blocks captured since then wait in the audio queue and the
\* render loop is still running.
C13_Witness ==
    /\ worker_exit = "transcribe_error" /\ worker_pc = "exited"
    /\ Len(audio_queue) >= 2 /\ word_color_chunks # <<>>
    /\ app_state = "RUNNING" /\ main_pc = "events" /\ running

\* C14: after a model-load failure or a transcription error, what the render
\* loop reads of the worker (the model-ready signal and the text queue)
\* differs from what it reads of a healthy worker that has produced no text
\* (signal set, text queue empty).
C14_FailureIsSignalled ==
    worker_exit \in {"load_error", "transcribe_error"}
        => ~(model_loaded /\ text_queue = <<>>)

\* C15: total_chars never decreases; the lightness level is a fraction in
\* [0, 1]; the level computed by the drawing step of an iteration in Running
\* or Finished, and so the level at the end of that iteration, equals
\* min(1, total_chars / TARGET_CHARS_FOR_RELEASE): it is one half when
\* total_chars is half the target and 1 when total_chars is at least the
\* target.
C15_LightnessFollowsTotal ==
    /\ [][total_chars' >= total_chars]_vars
    /\ [](/\ lightness_level.den > 0
          /\ 0 <= lightness_level.num
          /\ lightness_level.num <= lightness_level.den)
    /\ [](main_pc \in {"full_stop", "loop"} /\ app_state \in {"RUNNING", "FINISHED"}
            => /\ total_chars < TARGET_CHARS_FOR_RELEASE
                    => lightness_level.num * TARGET_CHARS_FOR_RELEASE
                            = lightness_level.den * total_chars
               /\ 2 * total_chars = TARGET_CHARS_FOR_RELEASE
                    => 2 * lightness_level.num = lightness_level.den
               /\ total_chars >= TARGET_CHARS_FOR_RELEASE
                    => lightness_level.num = lightness_level.den)

\* C15 witness: an iteration ends with total_chars at half the target after
\* a fragment was polled, and the level is one half.
C15_Witness ==
    /\ main_pc = "loop" /\ app_state = "RUNNING"
    /\ Len(word_color_chunks) = 1
    /\ 2 * total_chars = TARGET_CHARS_FOR_RELEASE
    /\ 2 * lightness_level.num = lightness_level.den

\* C16: a fragment leaves the text queue only in the poll step of the render
\* loop, which runs once per iteration, with app_state Running, and takes it
\* from the head; that step appends one entry for the fragment to the
\* transcript and adds the fragment's length to total_chars; the transcript
\* and total_chars change in no other step, and a poll step that finds
\* app_state not Running leaves the queue, the transcript and total_chars
\* unchanged.
C16_PollTakesOneFragment ==
    /\ [][Len(text_queue') < Len(text_queue) =>
            /\ main_pc = "poll" /\ main_pc' = "layout" /\ app_state = "RUNNING"
            /\ text_queue' = Tail(text_queue)
            /\ total_chars' = total_chars + Len(Head(text_queue).text)
            /\ Len(word_color_chunks') = Len(word_color_chunks) + 1
            /\ SubSeq(word_color_chunks', 1, Len(word_color_chunks)) = word_color_chunks
            /\ word_color_chunks'[Len(word_color_chunks')].seq = Head(text_queue).seq
       ]_vars
    /\ [][total_chars' # total_chars \/ word_color_chunks' # word_color_chunks
            => Len(text_queue') < Len(text_queue)]_vars
    /\ [][main_pc = "poll" /\ main_pc' # "poll" =>
            /\ main_pc' = "layout"
            /\ app_state # "RUNNING"
                  => UNCHANGED << text_queue, word_color_chunks, total_chars >>
       ]_vars
    /\ [][main_pc' = "poll" /\ main_pc # "poll"
            => main_pc \in {"state", "enter_running"}]_vars

\* C16 witness: the poll step has taken the second fragment and left another
\* one waiting in the queue.
C16_Witness ==
    /\ main_pc = "layout" /\ app_state = "RUNNING"
    /\ Len(word_color_chunks) = 2 /\ total_chars > 0
    /\ text_queue # <<>>

\* The quit event.
QuitEvent == [type |-> "QUIT", pos |-> <<0, 0>>]

\* C17: wherever the render loop stands, its next step can be taken at once,
\* without a step of the worker or of the audio callback: a quit event can be
\* handled and the event list left, the stop of the stream, the Loading
\* branch, the poll of the text queue, the drawing and the loop test go
\* through, whatever the text queue holds, whether or not the model is
\* loaded, and whether or not the worker is alive.
C17_RenderLoopNeverBlocks ==
    /\ main_pc = "events" => ENABLED HandleEvent(QuitEvent) /\ ENABLED EventsDone
    /\ main_pc = "pause_stop" => ENABLED PauseStop
    /\ main_pc = "state" => ENABLED (DrawNoStart \/ StartStreamOk)
    /\ main_pc = "enter_running" => ENABLED EnterRunning
    /\ main_pc = "poll" => ENABLED PollText
    /\ main_pc = "layout" => ENABLED Layout
    /\ main_pc = "full_stop" => ENABLED FullStop
    /\ main_pc = "loop" => ENABLED LoopTest

\* C17 witness: the render loop is about to poll an empty text queue while
\* Running, after the worker has died.
C17_Witness ==
    /\ main_pc = "poll" /\ app_state = "RUNNING" /\ running
    /\ text_queue = <<>> /\ worker_pc = "exited"
    /\ word_color_chunks # <<>>

\* The reference classifier of C18: the lower-cased word is looked up in the
\* lexicon and the first of its tags that the colour table knows gives the
\* colour; there is no colour but the default without such a tag.
reference_color(lex, word) ==
    LET tags  == lexicon_get(lex, lower(word))
        known == {i \in 1..Len(tags) : tags[i] \in DOMAIN EMOTION_COLORS}
    IN  IF known = {}
        THEN DEFAULT_TEXT_COLOR
        ELSE EMOTION_COLORS[tags[CHOOSE i \in known : \A j \in known : i <= j]]

\* C18: the transcript entry that the poll step builds from a fragment has
\* one token per whitespace-separated word of the fragment, in order, and the
\* colour of each token is the reference classifier's colour of its word
\* under the lexicon in use.
C18_ClassifierMatchesReference ==
    [][Len(text_queue') < Len(text_queue) =>
          LET words == split(Head(text_queue).text)
              chunk == word_color_chunks'[Len(word_color_chunks')]
          IN  /\ Len(word_color_chunks') = Len(word_color_chunks) + 1
              /\ Len(chunk.tokens) = Len(words)
              /\ \A i \in 1..Len(words) :
                    /\ chunk.tokens[i].word = words[i]
                    /\ chunk.tokens[i].color = reference_color(lexicon, words[i])
      ]_vars

\* C19: a screenshot is written only while a click on the save button is
\* handled with app_state Finished, and the step that writes it leaves
\* app_state, the stream, the transcript and total_chars as they were.
C19_SnapshotOnlyWhenFinished ==
    /\ [](saved_now => /\ main_pc = "events"
                       /\ IsClickOn(save_button_rect, event)
                       /\ app_state = "FINISHED")
    /\ [][saved_now' =>
            /\ app_state = "FINISHED"
            /\ UNCHANGED << app_state, stream, stream_active, word_color_chunks,
                            total_chars >>
       ]_vars

\* C19 witness: a screenshot of a paused session with a transcript has just
\* been written.
C19_Witness ==
    /\ saved_now /\ app_state = "FINISHED" /\ stream = "stopped"
    /\ word_color_chunks # <<>> /\ total_chars > 0

\* C20: every step of any thread leaves the transcript as it is or adds one
\* entry at its end, keeping all earlier entries in place (so the transcript
\* of every earlier state is a prefix of that of every later state); the
\* steps that add an entry are poll steps of the render loop, which change
\* nothing of the worker or of the audio queue.
C20_TranscriptAppendOnly ==
    /\ [][/\ Len(word_color_chunks') >= Len(word_color_chunks)
          /\ \A i \in 1..Len(word_color_chunks) :
                word_color_chunks'[i] = word_color_chunks[i]]_vars
    /\ [][word_color_chunks' # word_color_chunks =>
            /\ Len(word_color_chunks') = Len(word_color_chunks) + 1
            /\ main_pc = "poll" /\ main_pc' = "layout"
            /\ UNCHANGED << worker_pc, worker_exit, audio_chunk, audio_queue,
                            n_captured >>
       ]_vars

\* C20 witness: the run has ended with three entries in the transcript, the
\* session having been paused on the way.
C20_Witness ==
    /\ Len(word_color_chunks) = 3 /\ main_pc = "done"
    /\ app_state = "FINISHED"

\* C21: the first word of every chunk that is laid out is placed at the left
\* edge of the column the layout is in, and, for every chunk but the first,
\* on a line below the last word of the chunk before it or, after an advance
\* from the first column, at the top of the second column.
C21_ChunkStartsAtColumnEdge ==
    \A i \in 1..Len(word_color_chunks) :
        LET before == draw_text_in_columns(SubSeq(word_color_chunks, 1, i - 1), pixel_font)
            after  == place_word(before, word_color_chunks[i].tokens[1], pixel_font)
        IN  ~before.screen_full /\ ~after.screen_full =>
                LET p == after.placed[Len(after.placed)]
                IN  /\ p.x = after.current_col_x
                    /\ i > 1 =>
                          LET q == before.placed[Len(before.placed)]
                          IN  \/ p.y > q.y
                              \/ /\ p.y = margin /\ q.x < right_col_x
                                 /\ after.current_col_x = right_col_x

\* The layout cursor before word j of chunk i of a transcript.
cursor_before(chunks, i, j, font) ==
    place_words(draw_text_in_columns(SubSeq(chunks, 1, i - 1), font),
                SubSeq(chunks[i].tokens, 1, j - 1), font)

\* Three words of width w and the spaces between them fit in a column line,
\* a fourth does not.
fits_exactly_three(font, w) ==
    /\ 2 * (w + space_width(font)) + w <= col_width
    /\ 3 * (w + space_width(font)) + w > col_width

\* C22: for every word of every chunk that the layout reaches: when the
\* cursor plus the word's width does not exceed the right edge of the current
\* column, the word is placed at the cursor on the current line; otherwise,
\* if it is placed, it is at the left edge of the column on the next line
\* (the top of the second column when the first is exhausted); the cursor
\* then moves past the word and a space.  With a font that fits exactly three
\* one-letter words per line, the first three words of a first chunk of
\* four are on the first line and the fourth is at the start of the second
\* line.
C22_GreedyPlacement ==
    /\ \A i \in 1..Len(word_color_chunks) :
         \A j \in 1..Len(word_color_chunks[i].tokens) :
            LET before == cursor_before(word_color_chunks, i, j, pixel_font)
                tok    == word_color_chunks[i].tokens[j]
                w      == word_width(pixel_font, tok.word)
                after  == place_word(before, tok, pixel_font)
                p      == after.placed[Len(after.placed)]
            IN  ~before.screen_full =>
                  IF before.current_line_x + w <= before.current_col_x + col_width
                  THEN /\ ~after.screen_full
                       /\ Len(after.placed) = Len(before.placed) + 1
                       /\ p.word = tok.word
                       /\ p.x = before.current_line_x /\ p.y = before.col_y
                       /\ after.current_line_x = p.x + w + space_width(pixel_font)
                  ELSE \/ after.screen_full /\ after.placed = before.placed
                       \/ /\ ~after.screen_full
                          /\ Len(after.placed) = Len(before.placed) + 1
                          /\ p.word = tok.word
                          /\ p.x = after.current_col_x
                          /\ \/ /\ p.y = before.col_y + word_height(pixel_font)
                                /\ after.current_col_x = before.current_col_x
                             \/ /\ p.y = margin
                                /\ before.current_col_x = left_col_x
                                /\ after.current_col_x = right_col_x
                          /\ after.current_line_x = p.x + w + space_width(pixel_font)
    /\ ( /\ word_color_chunks # <<>>
         /\ Len(word_color_chunks[1].tokens) = 4
         /\ \A j \in 1..4 : Len(word_color_chunks[1].tokens[j].word) = 1
         /\ fits_exactly_three(pixel_font, pixel_font.char_width) )
       => LET placed == draw_text_in_columns(<<word_color_chunks[1]>>, pixel_font).placed
              step   == pixel_font.char_width + space_width(pixel_font)
          IN  /\ Len(placed) = 4
              /\ \A j \in 1..3 :
                    placed[j].y = margin /\ placed[j].x = left_col_x + (j - 1) * step
              /\ placed[4].x = left_col_x
              /\ placed[4].y = margin + word_height(pixel_font)

\* C22 witness: a chunk of four one-letter words has been laid out with a
\* font that fits exactly three of them per line, and the fourth word is at
\* the start of the second line.
C22_Witness ==
    /\ main_pc = "loop" /\ Len(word_color_chunks) = 1
    /\ Len(word_color_chunks[1].tokens) = 4
    /\ fits_exactly_three(pixel_font, pixel_font.char_width)
    /\ draw_text_in_columns(word_color_chunks, pixel_font).placed[4].x = left_col_x
    /\ draw_text_in_columns(word_color_chunks, pixel_font).placed[4].y
          = margin + word_height(pixel_font)

\* A line starting one line height below y would pass the column bottom.
passes_bottom(y, font) ==
    y + word_height(font) + word_height(font) > surface_height - margin

\* C23: overflow is reported only with the layout in the second column; a
\* line break (before a word that does not fit, or after a chunk) that would
\* pass the column bottom moves the layout from the first column to the top
\* of the second, and reports overflow from the second; a line break that
\* does not pass the bottom does neither; every placed word lies between the
\* top margin and surface height minus margin; and once overflow is detected
\* no further word is placed, in this transcript or in any longer one.
C23_ColumnsAndOverflow ==
    /\ [](LET d == draw_text_in_columns(word_color_chunks, pixel_font)
          IN  /\ d.screen_full => d.current_col_x = right_col_x
              /\ \A k \in 1..Len(d.placed) :
                    /\ d.placed[k].y >= margin
                    /\ d.placed[k].y + word_height(pixel_font) <= surface_height - margin
              /\ \A i \in 1..Len(word_color_chunks) :
                  /\ \A j \in 1..Len(word_color_chunks[i].tokens) :
                       LET before == cursor_before(word_color_chunks, i, j, pixel_font)
                           tok    == word_color_chunks[i].tokens[j]
                           after  == place_word(before, tok, pixel_font)
                           wraps  == before.current_line_x + word_width(pixel_font, tok.word)
                                        > before.current_col_x + col_width
                       IN  IF before.screen_full
                           THEN before.placed = d.placed
                           ELSE IF wraps /\ passes_bottom(before.col_y, pixel_font)
                                THEN IF before.current_col_x = left_col_x
                                     THEN /\ ~after.screen_full
                                          /\ after.current_col_x = right_col_x
                                          /\ after.col_y = margin
                                     ELSE after.screen_full
                                ELSE /\ ~after.screen_full
                                     /\ after.current_col_x = before.current_col_x
                  /\ LET last == cursor_before(word_color_chunks, i,
                                     Len(word_color_chunks[i].tokens) + 1, pixel_font)
                         next == end_chunk(last, pixel_font)
                     IN  ~last.screen_full =>
                            IF passes_bottom(last.col_y, pixel_font)
                            THEN IF last.current_col_x = left_col_x
                                 THEN /\ ~next.screen_full
                                      /\ next.current_col_x = right_col_x
                                      /\ next.col_y = margin
                                 ELSE next.screen_full
                            ELSE /\ ~next.screen_full
                                 /\ next.current_col_x = last.current_col_x
                                 /\ next.col_y = last.col_y + get_height(pixel_font))
    /\ [][draw_text_in_columns(word_color_chunks, pixel_font).screen_full
            => draw_text_in_columns(word_color_chunks', pixel_font).placed
                  = draw_text_in_columns(word_color_chunks, pixel_font).placed]_vars

\* C23 witness: a chunk of fourteen words has run from the first column into
\* the second and overflowed it before its last word.
C23_Witness ==
    /\ main_pc = "loop" /\ screen_is_full
    /\ Len(word_color_chunks) = 1 /\ Len(word_color_chunks[1].tokens) = 14
    /\ LET d == draw_text_in_columns(word_color_chunks, pixel_font)
       IN  /\ d.screen_full /\ Len(d.placed) < 14
           /\ \E k \in 1..Len(d.placed) :
                 d.placed[k].x = right_col_x /\ d.placed[k].y = margin

\* C24: when the layout of the transcript reports overflow, so does the
\* layout of the transcript after any step, which at most appends to it; the
\* overflow flag of the render loop, once set, stays set; from then on
\* app_state is Finished at the end of every iteration, and is Running only
\* inside an iteration, between a resume click and the drawing step.
C24_OverflowIsMonotone ==
    /\ [][draw_text_in_columns(word_color_chunks, pixel_font).screen_full
            => draw_text_in_columns(word_color_chunks', pixel_font).screen_full]_vars
    /\ [][screen_is_full => screen_is_full']_vars
    /\ [](screen_is_full
            => draw_text_in_columns(word_color_chunks, pixel_font).screen_full)
    /\ [](main_pc = "loop" /\ screen_is_full => app_state = "FINISHED")
    /\ [](screen_is_full /\ app_state = "RUNNING"
            => main_pc \in {"events", "state", "poll", "layout"})

\* C24 witness: the layout overflowed with three chunks, a fourth was
\* appended afterwards, and the iteration ended Finished.
C24_Witness ==
    /\ main_pc = "loop" /\ screen_is_full /\ app_state = "FINISHED"
    /\ Len(word_color_chunks) = 4
    /\ draw_text_in_columns(SubSeq(word_color_chunks, 1, 3), pixel_font).screen_full

\* C25: a fragment that is still in the text queue when the layout has
\* overflowed, or when a quit event has been handled, is never appended to
\* the transcript: from then on no step changes the transcript or takes
\* anything from the text queue.
C25_QueuedFragmentsStayQueued ==
    [][screen_is_full \/ ~running =>
          /\ word_color_chunks' = word_color_chunks
          /\ Len(text_queue') >= Len(text_queue)]_vars

====
